---- MODULE Spec2Model ----
(***************************************************************************)
(* Batch test-run orchestration of perftest: batch planning, scheduling    *)
(* on the remote device farm, and the polling / retry monitor.             *)
(*                                                                         *)
(*   src/perftest/commands/pipeline.py    non_interactive_upload_and_test  *)
(*   src/perftest/commands/test.py        schedule_test_for_pipeline       *)
(*   src/perftest/commands/devicefarm.py  monitor_runs_parallel_with_retry *)
(*                                        download_artifacts               *)
(*                                                                         *)
(* Trace metric extraction and the per-directory metrics cache:            *)
(*                                                                         *)
(*   src/perftest/analysis/trace_processor.py                              *)
(*                         extract_startup_metrics_from_trace              *)
(*                         process_single_trace                            *)
(*                         load_traces_with_batches_parallel, clear_cache  *)
(***************************************************************************)
EXTENDS Integers, Sequences, FiniteSets, TLC

\* ------------------------------------------------------------------ bounds

\* Largest requested iteration count and batch size of the planner check.
MaxIterations == 12
MaxBatchSize == 5
\* batch_size of config/default.yaml in the monitored requests.
CfgBatchSize == 2
\* Largest max_retries of config/default.yaml in the monitored requests.
MaxRetriesCfg == 3

\* ------------------------------------------------------------- base values

None == <<>>
Flows == {"upload_and_test", "for_pipeline"}
\* The statuses get_run reports; the last two are the terminal ones
\* (devicefarm.py:505).
NonTerminalStatuses == {"RUNNING"}
TerminalStatuses == {"COMPLETED", "STOPPED"}

Min(a, b) == IF a < b THEN a ELSE b

\* math.ceil(num_iterations / batch_size) on positive integers.
Ceil(t, b) == IF t % b = 0 THEN t \div b ELSE (t \div b) + 1

RECURSIVE SumSeq(_)
SumSeq(s) == IF s = <<>> THEN 0 ELSE Head(s) + SumSeq(Tail(s))

RECURSIVE Concat(_)
Concat(ss) == IF ss = <<>> THEN <<>> ELSE Head(ss) \o Concat(Tail(ss))

Range(s) == {s[i] : i \in 1..Len(s)}

VARIABLES
    pc,               \* position of the request in its code
    flow,             \* which entry point runs the request
    num_iterations,   \* requested iterations
    batch_size,       \* test_execution.batch_size
    max_retries,      \* test_execution.max_retries
    batches,          \* planned batch sizes
    app_arn,          \* uploaded app package handle, or None
    test_package_arn, \* uploaded test package handle, or None
    test_spec_arns,   \* per batch: uploaded test spec handle
    run_names,        \* per batch: run name
    test_spec_arn,    \* for_pipeline: the spec handle just uploaded
    initial_run_arns, \* per batch: handle of the first scheduled run
    runs,             \* the monitor's registry, in dict insertion order
    keys,             \* list(runs.keys()) of the cycle, not yet visited
    run_arn,          \* the run being handled in the cycle
    artifacts,        \* what the remote service serves for run_arn
    downloaded,       \* result of download_artifacts for run_arn
    all_traces,       \* the monitor's trace list
    ret,              \* the (success, traces) pair the monitor returned
    lastCall,         \* the last call made to the remote service
    got,              \* the non-empty lists download_artifacts returned, in order
    nScheduled,       \* per batch: runs scheduled so far
    slices,           \* the slice table of the trace handed to the extractor
    tp_ok,            \* whether TraceProcessor opens and queries the trace
    epc,              \* position of the extractor call
    extracted,        \* what extract_startup_metrics_from_trace returned
    trace_files,      \* the trace files beneath base_path
    cache_file,       \* base_path/.metrics_cache.json, or None
    apc,              \* position of load_traces_with_batches_parallel
    use_cache,        \* the call's use_cache argument
    trace_tasks,      \* the tasks the call collected, in order
    futures,          \* submitted tasks that have not completed yet
    metrics_list,     \* records collected so far, in completion order
    failed_count,     \* tasks counted as failed so far
    df,               \* what the call returned or raised
    prev,             \* the call before this one, when nothing happened since
    cleared,          \* what the last clear_cache returned
    base_path,        \* the parts of the directory given to the loader
    output_dir        \* the files beneath the download directory

vars == <<pc, flow, num_iterations, batch_size, max_retries, batches, app_arn,
          test_package_arn, test_spec_arns, run_names, test_spec_arn,
          initial_run_arns, runs, keys, run_arn, artifacts, downloaded,
          all_traces, ret, lastCall, got, nScheduled,
          slices, tp_ok, epc, extracted,
          trace_files, cache_file, apc, use_cache, trace_tasks, futures,
          metrics_list, failed_count, df, prev, cleared,
          base_path, output_dir>>

planVars == <<num_iterations, batch_size, max_retries, flow>>
uploadVars == <<app_arn, test_package_arn, test_spec_arns, run_names,
                test_spec_arn>>
monitorVars == <<runs, keys, run_arn, artifacts, downloaded, all_traces, ret>>
requestVars == <<pc, flow, num_iterations, batch_size, max_retries, batches,
                 app_arn, test_package_arn, test_spec_arns, run_names,
                 test_spec_arn, initial_run_arns, runs, keys, run_arn,
                 artifacts, downloaded, all_traces, ret, lastCall, got,
                 nScheduled>>
extractVars == <<slices, tp_ok, epc, extracted>>
cacheVars == <<trace_files, cache_file, apc, use_cache, trace_tasks, futures,
               metrics_list, failed_count, df, prev, cleared>>
dirVars == <<base_path, output_dir>>
analysisVars == <<extractVars, cacheVars, dirVars>>

NoCall == [op |-> "none", arn |-> None, args |-> <<>>]

\* The state before the request starts: nothing planned, uploaded or scheduled.
Blank ==
    /\ batches = <<>>
    /\ app_arn = None
    /\ test_package_arn = None
    /\ test_spec_arns = <<>>
    /\ run_names = <<>>
    /\ test_spec_arn = None
    /\ initial_run_arns = <<>>
    /\ runs = <<>>
    /\ keys = <<>>
    /\ run_arn = None
    /\ artifacts = None
    /\ downloaded = <<>>
    /\ all_traces = <<>>
    /\ ret = None
    /\ lastCall = NoCall
    /\ got = <<>>
    /\ nScheduled = [b \in 1..Ceil(num_iterations, batch_size) |-> 0]

\* No trace is being extracted.
NoExtraction ==
    /\ slices = {}
    /\ tp_ok = TRUE
    /\ epc = "idle"
    /\ extracted = None

\* The parts of the base_path of the comparison's trace directories.
BaseParts == <<"output", "traces">>

\* No trace directory is being loaded, and nothing was downloaded.
NoLoad ==
    /\ base_path = BaseParts
    /\ output_dir = {}
    /\ trace_files = {}
    /\ cache_file = None
    /\ apc = "idle"
    /\ use_cache = TRUE
    /\ trace_tasks = <<>>
    /\ futures = {}
    /\ metrics_list = <<>>
    /\ failed_count = 0
    /\ df = None
    /\ prev = None
    /\ cleared = None

\* No test request is running.
NoRequest ==
    /\ pc = "idle"
    /\ flow = "upload_and_test"
    /\ num_iterations = 1
    /\ batch_size = CfgBatchSize
    /\ max_retries = 0
    /\ Blank

\* --------------------------------------------------------- batch planning

num_batches == Ceil(num_iterations, batch_size)

\* batch_iterations of loop index i (0-based), with the bug of a planner that
\* forgets the remainder.
BatchIterationsNoRemainder(i) == batch_size

\* batch_iterations = min(batch_size, num_iterations - i * batch_size)
BatchIterations(i) == Min(batch_size, num_iterations - i * batch_size)

\* One iteration of "for i in range(num_batches)", or the end of the loop.
CalculateBatches ==
    /\ pc = "plan"
    /\ UNCHANGED analysisVars
    /\ IF Len(batches) < num_batches
       THEN /\ batches' = Append(batches, BatchIterations(Len(batches)))
            /\ pc' = pc
       ELSE /\ batches' = batches
            /\ pc' = "upload_app"
    /\ UNCHANGED <<planVars, uploadVars, initial_run_arns, monitorVars,
                   lastCall, got, nScheduled>>

\* The planner on its own, for every (T, B) of the bounds.
InitPlan ==
    /\ pc = "plan"
    /\ NoExtraction
    /\ NoLoad
    /\ flow = "upload_and_test"
    /\ num_iterations \in 1..MaxIterations
    /\ batch_size \in 1..MaxBatchSize
    /\ max_retries = 0
    /\ Blank

NextPlan == CalculateBatches

SpecPlan == InitPlan /\ [][NextPlan]_vars

\* ------------------------------------------------ uploads and scheduling

DevicePoolArn == <<"pool">>
AppArn == <<"app">>
TestPackageArn == <<"pkg">>
TestSpecArn(i) == <<"spec", i>>
\* The handle the service gives the k-th run it schedules for batch index b.
RunArn(b, k) == <<"run", b, k>>

\* batch_run_name of the 1-based batch i (pipeline.py:338-341, test.py:156-159).
RunName(i) == IF num_batches > 1 THEN <<"base", i, num_batches>> ELSE <<"base">>

\* Where a failed upload or schedule call sends the request: sys.exit(1) in
\* non_interactive_upload_and_test, "return None" in schedule_test_for_pipeline;
\* with the bug of a caller that tries the call again.
AbortTriesAgain == pc

Abort == IF flow = "upload_and_test" THEN "exit" ELSE "return_none"

UploadCall(kind, result) == [op |-> "create_upload", arn |-> result, args |-> <<kind>>]

\* The schedule_run request schedule_test_run sends, and the handle it got.
ScheduleCall(spec, name, result) ==
    [op |-> "schedule_run", arn |-> result,
     args |-> <<app_arn, test_package_arn, DevicePoolArn, spec, name>>]

\* app_arn = upload_apk(..., 'ANDROID_APP')
UploadAppApk ==
    /\ pc = "upload_app"
    /\ UNCHANGED analysisVars
    /\ \E ok \in BOOLEAN :
        /\ app_arn' = IF ok THEN AppArn ELSE None
        /\ lastCall' = UploadCall("ANDROID_APP", app_arn')
        /\ pc' = IF ok THEN "upload_test" ELSE Abort
    /\ UNCHANGED <<planVars, batches, test_package_arn, test_spec_arns, run_names,
                   test_spec_arn, initial_run_arns, monitorVars, got, nScheduled>>

\* test_package_arn = upload_apk(..., 'INSTRUMENTATION_TEST_PACKAGE')
UploadTestApk ==
    /\ pc = "upload_test"
    /\ UNCHANGED analysisVars
    /\ \E ok \in BOOLEAN :
        /\ test_package_arn' = IF ok THEN TestPackageArn ELSE None
        /\ lastCall' = UploadCall("INSTRUMENTATION_TEST_PACKAGE", test_package_arn')
        /\ pc' = IF ok THEN "upload_spec" ELSE Abort
    /\ UNCHANGED <<planVars, batches, app_arn, test_spec_arns, run_names,
                   test_spec_arn, initial_run_arns, monitorVars, got, nScheduled>>

\* One iteration of the test-spec loop of non_interactive_upload_and_test: the
\* spec of the next batch is uploaded and, with its run name, recorded.
UploadTestSpec ==
    /\ pc = "upload_spec"
    /\ UNCHANGED analysisVars
    /\ flow = "upload_and_test"
    /\ LET i == Len(test_spec_arns) + 1 IN
       IF i > Len(batches)
       THEN /\ pc' = "schedule"
            /\ UNCHANGED <<test_spec_arns, run_names, lastCall>>
       ELSE \E ok \in BOOLEAN :
            /\ lastCall' = UploadCall("INSTRUMENTATION_TEST_SPEC",
                                      IF ok THEN TestSpecArn(i) ELSE None)
            /\ IF ok
               THEN /\ test_spec_arns' = Append(test_spec_arns, TestSpecArn(i))
                    /\ run_names' = Append(run_names, RunName(i))
                    /\ pc' = pc
               ELSE /\ pc' = Abort
                    /\ UNCHANGED <<test_spec_arns, run_names>>
    /\ UNCHANGED <<planVars, batches, app_arn, test_package_arn, test_spec_arn,
                   initial_run_arns, monitorVars, got, nScheduled>>

\* One iteration of the schedule loop of non_interactive_upload_and_test.
ScheduleBatch ==
    /\ pc = "schedule"
    /\ UNCHANGED analysisVars
    /\ flow = "upload_and_test"
    /\ LET i == Len(initial_run_arns) + 1 IN
       IF i > num_batches
       THEN /\ pc' = "monitor"
            /\ UNCHANGED <<initial_run_arns, lastCall, got, nScheduled>>
       ELSE \E ok \in BOOLEAN :
            LET arn == IF ok THEN RunArn(i - 1, nScheduled[i] + 1) ELSE None IN
            /\ lastCall' = ScheduleCall(test_spec_arns[i], run_names[i], arn)
            /\ IF ok
               THEN /\ initial_run_arns' = Append(initial_run_arns, arn)
                    /\ nScheduled' = [nScheduled EXCEPT ![i] = @ + 1]
                    /\ pc' = pc
               ELSE /\ pc' = Abort
                    /\ UNCHANGED <<initial_run_arns, nScheduled>>
    /\ UNCHANGED <<planVars, batches, uploadVars, monitorVars, got>>

\* schedule_test_for_pipeline: the spec upload of the next batch, or the end
\* of its loop.
PipelineUploadTestSpec ==
    /\ pc = "upload_spec"
    /\ UNCHANGED analysisVars
    /\ flow = "for_pipeline"
    /\ LET i == Len(initial_run_arns) + 1 IN
       IF i > Len(batches)
       THEN /\ pc' = "return_info"
            /\ UNCHANGED <<test_spec_arn, lastCall>>
       ELSE \E ok \in BOOLEAN :
            /\ test_spec_arn' = IF ok THEN TestSpecArn(i) ELSE None
            /\ lastCall' = UploadCall("INSTRUMENTATION_TEST_SPEC", test_spec_arn')
            /\ pc' = IF ok THEN "schedule" ELSE Abort
    /\ UNCHANGED <<planVars, batches, app_arn, test_package_arn, test_spec_arns,
                   run_names, initial_run_arns, monitorVars, got, nScheduled>>

\* schedule_test_for_pipeline: the schedule call that follows the spec upload.
PipelineScheduleBatch ==
    /\ pc = "schedule"
    /\ UNCHANGED analysisVars
    /\ flow = "for_pipeline"
    /\ LET i == Len(initial_run_arns) + 1 IN
       \E ok \in BOOLEAN :
       LET arn == IF ok THEN RunArn(i - 1, nScheduled[i] + 1) ELSE None IN
       /\ lastCall' = ScheduleCall(test_spec_arn, RunName(i), arn)
       /\ IF ok
          THEN /\ initial_run_arns' = Append(initial_run_arns, arn)
               /\ test_spec_arns' = Append(test_spec_arns, test_spec_arn)
               /\ run_names' = Append(run_names, RunName(i))
               /\ nScheduled' = [nScheduled EXCEPT ![i] = @ + 1]
               /\ pc' = "upload_spec"
          ELSE /\ pc' = Abort
               /\ UNCHANGED <<initial_run_arns, test_spec_arns, run_names, nScheduled>>
    /\ UNCHANGED <<planVars, batches, app_arn, test_package_arn, test_spec_arn,
                   monitorVars, got>>

\* ------------------------------------------------------ download_artifacts

\* What the remote service serves for a terminal run. Only what the filters of
\* download_artifacts let through is listed: per job the CUSTOMER_ARTIFACT zips
\* (job_artifacts) and the per-test '.perfetto-trace' artifacts
\* (test_artifacts). An artifact gives the trace entries extracted from it, in
\* order, and whether fetching or unpacking it then raised.
Art(names, error) == [names |-> names, error |-> error]
Job(ja, ta) == [job_artifacts |-> ja, test_artifacts |-> ta]
Served(ok, jobs) == [list_jobs_ok |-> ok, jobs |-> jobs]

NoTraces == Served(TRUE, <<Job(<<>>, <<>>)>>)
OneTrace == Served(TRUE, <<Job(<<Art(<<"iter1">>, FALSE)>>, <<>>)>>)
TwoTraces == Served(TRUE, <<Job(<<Art(<<"iter1", "iter2">>, FALSE)>>, <<>>)>>)
ListJobsFails == Served(FALSE, <<>>)
\* The first job's zip cannot be fetched; the second job's zip holds a trace.
JobZipFails == Served(TRUE, <<Job(<<Art(<<>>, TRUE)>>, <<>>),
                              Job(<<Art(<<"iter1">>, FALSE)>>, <<>>)>>)
\* A trace was extracted from the zip, then a test-level artifact cannot be
\* fetched.
TestArtifactFails == Served(TRUE, <<Job(<<Art(<<"iter1">>, FALSE)>>,
                                        <<Art(<<>>, TRUE)>>)>>)

ArtifactPlans == {NoTraces, OneTrace, TwoTraces, ListJobsFails, JobZipFails,
                  TestArtifactFails}

\* The job-level block (devicefarm.py:611-695): an error ends the block for
\* this job, keeping what was appended to downloaded_files before it.
RECURSIVE JobLevel(_, _)
JobLevel(arts, acc) ==
    IF arts = <<>> THEN acc
    ELSE LET a == Head(arts) IN
         IF a.error THEN acc \o a.names
         ELSE JobLevel(Tail(arts), acc \o a.names)

\* The suites/tests block (devicefarm.py:697-739): an error is not caught here.
RECURSIVE TestLevel(_, _)
TestLevel(arts, acc) ==
    IF arts = <<>> THEN [files |-> acc, raised |-> FALSE]
    ELSE LET a == Head(arts) IN
         IF a.error THEN [files |-> acc \o a.names, raised |-> TRUE]
         ELSE TestLevel(Tail(arts), acc \o a.names)

\* for job in jobs (devicefarm.py:607-739).
RECURSIVE ForJobs(_, _)
ForJobs(jobs, acc) ==
    IF jobs = <<>> THEN [files |-> acc, raised |-> FALSE]
    ELSE LET j == Head(jobs)
             t == TestLevel(j.test_artifacts, JobLevel(j.job_artifacts, acc))
         IN IF t.raised THEN t ELSE ForJobs(Tail(jobs), t.files)

\* output_file = run_output_dir / trace_filename
OutputFile(arn, name) == <<arn, name>>

\* The list download_artifacts returns: downloaded_files, or [] from the outer
\* handler (devicefarm.py:751-759).
download_artifacts(arn, served) ==
    IF ~served.list_jobs_ok THEN <<>>
    ELSE LET r == ForJobs(served.jobs, <<>>) IN
         IF r.raised THEN <<>>
         ELSE [i \in 1..Len(r.files) |-> OutputFile(arn, r.files[i])]

\* ---------------------------------------- monitor_runs_parallel_with_retry

\* The registry is a dict keyed by run handle; a sequence keeps its insertion
\* order.
HasKey(d, k) == \E i \in 1..Len(d) : d[i].arn = k
IndexOf(d, k) == CHOOSE i \in 1..Len(d) : d[i].arn = k
Lookup(d, k) == d[IndexOf(d, k)]
DictSet(d, k, v) == IF HasKey(d, k) THEN [d EXCEPT ![IndexOf(d, k)] = v] ELSE Append(d, v)
DictDel(d, k) == SelectSeq(d, LAMBDA e : e.arn # k)
\* list(runs.keys()), with the bug of a list in reverse insertion order.
KeysReversed(d) == [i \in 1..Len(d) |-> d[Len(d) + 1 - i].arn]

Keys(d) == [i \in 1..Len(d) |-> d[i].arn]

\* A fresh registry entry, with the bug of an entry that always starts at
\* attempt 1.
RunInfoFirstAttempt(arn, idx, attempt) ==
    [arn |-> arn, batch_idx |-> idx, attempt |-> 1, status |-> "PENDING",
     last_status |-> "None", completed |-> FALSE]

\* A fresh registry entry (devicefarm.py:461-467, 539-545).
RunInfo(arn, idx, attempt) ==
    [arn |-> arn, batch_idx |-> idx, attempt |-> attempt, status |-> "PENDING",
     last_status |-> "None", completed |-> FALSE]

\* for idx, run_arn in enumerate(initial_run_arns): runs[run_arn] = {...}
RECURSIVE TrackRuns(_, _, _)
TrackRuns(arns, idx, d) ==
    IF arns = <<>> THEN d
    ELSE TrackRuns(Tail(arns), idx + 1,
                   DictSet(d, Head(arns), RunInfo(Head(arns), idx, 1)))

InLoop == {"top", "poll", "download", "evaluate", "retry", "sleep"}
Returned == {"ret_success", "ret_abandoned", "ret_sched_failed", "ret_interrupt"}

\* What get_run can answer: a status, or an error.
GetRunResults == NonTerminalStatuses \cup TerminalStatuses \cup {"error"}

\* The call of pipeline.py:372 up to the loop: the session and client are
\* created, then the registry and the trace list. A failure to create them
\* reaches the outer handler before all_traces is bound.
StartMonitor ==
    /\ pc = "monitor"
    /\ UNCHANGED analysisVars
    /\ \E session_ok \in BOOLEAN :
        IF session_ok
        THEN /\ runs' = TrackRuns(initial_run_arns, 0, <<>>)
             /\ pc' = "top"
        ELSE /\ runs' = runs
             /\ pc' = "raised"
    /\ all_traces' = <<>>
    /\ UNCHANGED <<planVars, batches, uploadVars, initial_run_arns, keys, run_arn,
                   artifacts, downloaded, ret, lastCall, got, nScheduled>>

\* Top of "while True" (devicefarm.py:476-483).
CheckAllCompleted ==
    /\ pc = "top"
    /\ UNCHANGED analysisVars
    /\ IF \A i \in 1..Len(runs) : runs[i].completed
       THEN /\ ret' = <<TRUE, all_traces>>
            /\ pc' = "ret_success"
            /\ keys' = keys
       ELSE /\ keys' = Keys(runs)
            /\ pc' = "poll"
            /\ ret' = ret
    /\ UNCHANGED <<planVars, batches, uploadVars, initial_run_arns, runs, run_arn,
                   artifacts, downloaded, all_traces, lastCall, got, nScheduled>>

\* if run_info['completed']: continue
SkipCompleted ==
    /\ pc = "poll"
    /\ UNCHANGED analysisVars
    /\ keys # <<>>
    /\ Lookup(runs, Head(keys)).completed
    /\ keys' = Tail(keys)
    /\ UNCHANGED <<pc, planVars, batches, uploadVars, initial_run_arns, runs,
                   run_arn, artifacts, downloaded, all_traces, ret, lastCall,
                   got, nScheduled>>

\* if status in ['COMPLETED', 'STOPPED']
IsTerminal(status) == status \in TerminalStatuses

\* client.get_run, with the bug of a loop that does not skip the completed
\* runs.
GetRunAlsoCompleted ==
    /\ pc = "poll"
    /\ UNCHANGED analysisVars
    /\ keys # <<>>
    /\ LET arn == Head(keys) IN
       \E status \in GetRunResults :
        /\ lastCall' = [op |-> "get_run", arn |-> arn, args |-> <<status>>]
        /\ keys' = Tail(keys)
        /\ IF status = "error"
           THEN UNCHANGED <<runs, run_arn, pc>>
           ELSE /\ runs' = DictSet(runs, arn,
                              [Lookup(runs, arn) EXCEPT !.status = status,
                                                        !.last_status = status])
                /\ IF IsTerminal(status)
                   THEN /\ run_arn' = arn
                        /\ pc' = "download"
                   ELSE UNCHANGED <<run_arn, pc>>
    /\ UNCHANGED <<planVars, batches, uploadVars, initial_run_arns, artifacts,
                   downloaded, all_traces, ret, got, nScheduled>>

\* client.get_run, with the bug of an error that ends the cycle.
GetRunErrorEndsCycle ==
    /\ pc = "poll"
    /\ UNCHANGED analysisVars
    /\ keys # <<>>
    /\ ~Lookup(runs, Head(keys)).completed
    /\ LET arn == Head(keys) IN
       \E status \in GetRunResults :
        /\ lastCall' = [op |-> "get_run", arn |-> arn, args |-> <<status>>]
        /\ keys' = IF status = "error" THEN <<>> ELSE Tail(keys)
        /\ IF status = "error"
           THEN UNCHANGED <<runs, run_arn, pc>>
           ELSE /\ runs' = DictSet(runs, arn,
                              [Lookup(runs, arn) EXCEPT !.status = status,
                                                        !.last_status = status])
                /\ IF IsTerminal(status)
                   THEN /\ run_arn' = arn
                        /\ pc' = "download"
                   ELSE UNCHANGED <<run_arn, pc>>
    /\ UNCHANGED <<planVars, batches, uploadVars, initial_run_arns, artifacts,
                   downloaded, all_traces, ret, got, nScheduled>>

\* client.get_run for the next run of the cycle (devicefarm.py:489-505, 555).
GetRun ==
    /\ pc = "poll"
    /\ UNCHANGED analysisVars
    /\ keys # <<>>
    /\ ~Lookup(runs, Head(keys)).completed
    /\ LET arn == Head(keys) IN
       \E status \in GetRunResults :
        /\ lastCall' = [op |-> "get_run", arn |-> arn, args |-> <<status>>]
        /\ keys' = Tail(keys)
        /\ IF status = "error"
           THEN UNCHANGED <<runs, run_arn, pc>>
           ELSE /\ runs' = DictSet(runs, arn,
                              [Lookup(runs, arn) EXCEPT !.status = status,
                                                        !.last_status = status])
                /\ IF IsTerminal(status)
                   THEN /\ run_arn' = arn
                        /\ pc' = "download"
                   ELSE UNCHANGED <<run_arn, pc>>
    /\ UNCHANGED <<planVars, batches, uploadVars, initial_run_arns, artifacts,
                   downloaded, all_traces, ret, got, nScheduled>>

\* downloaded = download_artifacts(run_arn, output_dir)
Download ==
    /\ pc = "download"
    /\ UNCHANGED analysisVars
    /\ \E served \in ArtifactPlans :
        /\ artifacts' = served
        /\ downloaded' = download_artifacts(run_arn, served)
    /\ got' = IF downloaded' # <<>> THEN Append(got, downloaded') ELSE got
    /\ lastCall' = [op |-> "download", arn |-> run_arn, args |-> <<>>]
    /\ pc' = "evaluate"
    /\ UNCHANGED <<planVars, batches, uploadVars, initial_run_arns, runs, keys,
                   run_arn, all_traces, ret, nScheduled>>

\* The registry after a successful download of arn.
MarkCompleted(arn) == DictSet(runs, arn, [Lookup(runs, arn) EXCEPT !.completed = TRUE])

\* attempt < max_retries + 1, with the bug of a budget that is off by one.
CanRetryOnceMore(attempt) == attempt <= max_retries + 1

CanRetry(attempt) == attempt < max_retries + 1

\* "if downloaded:", with the bug of a check that takes an empty list for a
\* success.
HasTracesAlways(d) == TRUE

HasTraces(d) == d # <<>>

\* all_traces.extend(downloaded), with the bug of an assignment.
ExtendTracesByAssignment(traces, d) == d

ExtendTraces(traces, d) == traces \o d

\* "return False, all_traces" of the exhausted budget (devicefarm.py:553),
\* with the bug of a return that drops the traces.
AbandonReturnNoTraces == <<FALSE, <<>>>>

AbandonReturn == <<FALSE, all_traces>>

\* if downloaded: ... else: ... (devicefarm.py:514-523, 550-553), up to the
\* retry's schedule call.
Evaluate ==
    /\ pc = "evaluate"
    /\ UNCHANGED analysisVars
    /\ IF HasTraces(downloaded)
       THEN /\ all_traces' = ExtendTraces(all_traces, downloaded)
            /\ runs' = MarkCompleted(run_arn)
            /\ pc' = "poll"
            /\ run_arn' = None
            /\ artifacts' = None
            /\ downloaded' = <<>>
            /\ ret' = ret
       ELSE /\ IF CanRetry(Lookup(runs, run_arn).attempt)
               THEN /\ pc' = "retry"
                    /\ ret' = ret
               ELSE /\ pc' = "ret_abandoned"
                    /\ ret' = AbandonReturn
            /\ UNCHANGED <<all_traces, runs, run_arn, artifacts, downloaded>>
    /\ UNCHANGED <<planVars, batches, uploadVars, initial_run_arns, keys, lastCall,
                   got, nScheduled>>

\* "del runs[run_arn]; runs[retry_run_arn] = {...}", with the bug of a
\* registry that keeps the old run.
ReplaceRunKeepingOld(old, new, info) == DictSet(runs, new, info)

ReplaceRun(old, new, info) == DictSet(DictDel(runs, old), new, info)

\* retry_run_arn = schedule_test_run(...) and what follows it
\* (devicefarm.py:526-549).
ScheduleRetry ==
    /\ pc = "retry"
    /\ UNCHANGED analysisVars
    /\ LET info == Lookup(runs, run_arn)
           batch_idx == info.batch_idx
       IN \E ok \in BOOLEAN :
          LET retry_run_arn == IF ok THEN RunArn(batch_idx, nScheduled[batch_idx + 1] + 1)
                               ELSE None
          IN /\ lastCall' = ScheduleCall(test_spec_arns[batch_idx + 1],
                                         run_names[batch_idx + 1], retry_run_arn)
             /\ IF ok
                THEN /\ runs' = ReplaceRun(run_arn, retry_run_arn,
                                  RunInfo(retry_run_arn, batch_idx, info.attempt + 1))
                     /\ nScheduled' = [nScheduled EXCEPT ![batch_idx + 1] = @ + 1]
                     /\ pc' = "poll"
                     /\ run_arn' = None
                     /\ artifacts' = None
                     /\ ret' = ret
                ELSE /\ pc' = "ret_sched_failed"
                     /\ ret' = <<FALSE, all_traces>>
                     /\ UNCHANGED <<runs, nScheduled, run_arn, artifacts>>
    /\ UNCHANGED <<planVars, batches, uploadVars, initial_run_arns, keys,
                   downloaded, all_traces, got>>

\* The for loop is exhausted: time.sleep(10), then the next cycle.
EndCycle ==
    /\ pc = "poll"
    /\ UNCHANGED analysisVars
    /\ keys = <<>>
    /\ pc' = "sleep"
    /\ UNCHANGED <<planVars, batches, uploadVars, initial_run_arns, monitorVars,
                   lastCall, got, nScheduled>>

Sleep ==
    /\ pc = "sleep"
    /\ UNCHANGED analysisVars
    /\ pc' = "top"
    /\ UNCHANGED <<planVars, batches, uploadVars, initial_run_arns, monitorVars,
                   lastCall, got, nScheduled>>

\* except KeyboardInterrupt (devicefarm.py:561-564): the operator's Ctrl+C
\* raises in the monitor wherever it is inside the loop. First, with the bug
\* of a handler that stops the run it was handling.
KeyboardInterruptStoppingRun ==
    /\ pc \in InLoop
    /\ UNCHANGED analysisVars
    /\ ret' = <<FALSE, all_traces>>
    /\ pc' = "ret_interrupt"
    /\ lastCall' = [op |-> "stop_run", arn |-> run_arn, args |-> <<>>]
    /\ UNCHANGED <<planVars, batches, uploadVars, initial_run_arns, runs, keys,
                   run_arn, artifacts, downloaded, all_traces, got, nScheduled>>

KeyboardInterrupt ==
    /\ pc \in InLoop
    /\ UNCHANGED analysisVars
    /\ ret' = <<FALSE, all_traces>>
    /\ pc' = "ret_interrupt"
    /\ UNCHANGED <<planVars, batches, uploadVars, initial_run_arns, runs, keys,
                   run_arn, artifacts, downloaded, all_traces, lastCall, got, nScheduled>>

\* The caller after the monitor returned (pipeline.py:385-395); the monitor's
\* locals are gone.
AfterMonitor ==
    /\ pc \in Returned
    /\ UNCHANGED analysisVars
    /\ pc' = IF ~ret[1] THEN "exit" ELSE "done"
    /\ runs' = <<>>
    /\ keys' = <<>>
    /\ run_arn' = None
    /\ artifacts' = None
    /\ downloaded' = <<>>
    /\ UNCHANGED <<planVars, batches, uploadVars, initial_run_arns, all_traces, ret,
                   lastCall, got, nScheduled>>

\* ---------------------------------------------------------- specification

\* ------------------------------------------------ startup metric extraction

\* Nanoseconds in a millisecond: the divisor of STARTUP_METRICS_QUERY.
NsPerMs == 1000000

\* The three markers of STARTUP_METRICS_QUERY (WHERE name IN (...)).
PageLoad == "android_platform_page_load_complete"
BindApp == "bindApplication"
RenderBegin == "android_apps_tab_screen_render_begin"
MarkerNames == {PageLoad, BindApp, RenderBegin}

\* A row of the trace's slice table.
Slice(name, ts) == [name |-> name, ts |-> ts]

\* ROW_NUMBER() OVER (PARTITION BY name ORDER BY ts), with the bug of an
\* ordering by descending timestamp.
RowNumberDescending(rows, r) ==
    1 + Cardinality({q \in rows : q.name = r.name /\ q.ts > r.ts})

\* ROW_NUMBER() OVER (PARTITION BY name ORDER BY ts)
RowNumber(rows, r) ==
    1 + Cardinality({q \in rows : q.name = r.name /\ q.ts < r.ts})

\* The markers CTE: the rows named by a marker, each with its row number.
Markers(table) ==
    LET rows == {r \in table : r.name \in MarkerNames}
    IN  {[name |-> r.name, ts |-> r.ts, rn |-> RowNumber(rows, r)] : r \in rows}

\* MAX(CASE WHEN name = n THEN ts END) over the rows with rn = 1.  An SQL
\* value is the set of its values: {} is NULL.
MaxTs(rows, n) ==
    LET ts == {r.ts : r \in {q \in rows : q.rn = 1 /\ q.name = n}}
    IN  IF ts = {} THEN {} ELSE {CHOOSE t \in ts : \A u \in ts : u <= t}

\* The timestamps CTE: one row, whatever the trace holds.
Timestamps(table) ==
    LET first == Markers(table)
    IN  [page_load_ts |-> MaxTs(first, PageLoad),
         bind_app_ts |-> MaxTs(first, BindApp),
         render_ts |-> MaxTs(first, RenderBegin)]

Value(v) == CHOOSE x \in v : TRUE

\* (a - b) / 1000000.0 as the exact quotient <<numerator, denominator>>.
LatencyMs(a, b) == <<a - b, NsPerMs>>

\* The rows STARTUP_METRICS_QUERY returns: the WHERE clause asks that the three
\* timestamps are not NULL, and nothing else.
StartupMetricsQuery(table) ==
    LET t == Timestamps(table)
    IN  IF t.page_load_ts # {} /\ t.bind_app_ts # {} /\ t.render_ts # {}
        THEN <<[startup_latency_ms |->
                    LatencyMs(Value(t.page_load_ts), Value(t.bind_app_ts)),
                render_latency_ms |->
                    LatencyMs(Value(t.render_ts), Value(t.bind_app_ts))]>>
        ELSE <<>>

\* extract_startup_metrics_from_trace: (startup_ms, render_ms), or None when
\* the query returns no row or TraceProcessor raises.
extract_startup_metrics_from_trace(table, ok) ==
    IF ~ok
    THEN None
    ELSE LET result == StartupMetricsQuery(table)
         IN  IF Len(result) > 0
             THEN <<result[1].startup_latency_ms, result[1].render_latency_ms>>
             ELSE None

\* The timestamps of the traces handed to the extractor, in nanoseconds.
Times == {0, 2 * NsPerMs, 5 * NsPerMs}
SliceNames == MarkerNames \cup {"Choreographer#doFrame"}
SliceTables == SUBSET {Slice(n, t) : n \in SliceNames, t \in Times}

ExtractStartupMetrics ==
    /\ epc = "call"
    /\ extracted' = extract_startup_metrics_from_trace(slices, tp_ok)
    /\ epc' = "returned"
    /\ UNCHANGED <<slices, tp_ok, cacheVars, dirVars, requestVars>>

InitExtract ==
    /\ NoRequest
    /\ NoLoad
    /\ slices \in SliceTables
    /\ tp_ok \in BOOLEAN
    /\ epc = "call"
    /\ extracted = None

NextExtract == ExtractStartupMetrics

SpecExtract == InitExtract /\ [][NextExtract]_vars

\* ---------------------------------------------------- the trace directory

\* Trace files beneath base_path, as the parts of their path below base_path.
Run1Iter1 == <<"arn_run1", "iter1.perfetto-trace">>
Run1Iter2 == <<"arn_run1", "iter2.perfetto-trace">>
Run2Iter5 == <<"arn_run2", "iter5.perfetto-trace">>
Run2Iter7 == <<"arn_run2", "iter7.perfetto-trace">>
Run2Startup == <<"arn_run2", "startup.perfetto-trace">>
\* A log beside the traces of a run, a trace in a hidden folder of a run, and
\* a trace directly beneath base_path.
Run1Logcat == <<"arn_run1", "logcat.txt">>
Run2Backup3 == <<"arn_run2", ".backup_traces", "iter3.perfetto-trace">>
LooseIter4 == <<"iter4.perfetto-trace">>

\* The trace files a directory may hold, in the order sorted() gives paths.
SortedPaths == <<Run1Iter1, Run1Iter2, Run1Logcat, Run2Backup3, Run2Iter5,
                 Run2Iter7, Run2Startup, LooseIter4>>
\* The names of its sub-folders, in the order sorted() gives paths.
SortedFolders == <<"arn_run1", "arn_run2">>

\* d.name.startswith('arn')
StartsWithArn(part) == part \in {"arn_run1", "arn_run2"}
\* part.startswith('.')
StartsWithDot(part) == part \in {".", "..", ".backup_traces"}
\* The names rglob('*.perfetto-trace') matches.
IsTraceName(name) ==
    name \in {"iter1.perfetto-trace", "iter2.perfetto-trace",
              "iter3.perfetto-trace", "iter4.perfetto-trace",
              "iter5.perfetto-trace", "iter7.perfetto-trace",
              "startup.perfetto-trace"}

\* re.search(r'iter(\d+)', name): the set of int(group(1)), empty when the
\* name does not match.
IterMatch(name) ==
    CASE name = "iter1.perfetto-trace" -> {1}
      [] name = "iter2.perfetto-trace" -> {2}
      [] name = "iter3.perfetto-trace" -> {3}
      [] name = "iter4.perfetto-trace" -> {4}
      [] name = "iter5.perfetto-trace" -> {5}
      [] name = "iter7.perfetto-trace" -> {7}
      [] OTHER -> {}

Last(path) == path[Len(path)]
IsPrefix(a, b) == Len(a) <= Len(b) /\ SubSeq(b, 1, Len(a)) = a

\* What the trace files hold: the slice table, and whether TraceProcessor can
\* open and query the file.
TraceOf(path) ==
    CASE path = Run1Iter2 ->
             {Slice(BindApp, 0), Slice(PageLoad, 5 * NsPerMs)}
      [] path = Run2Iter5 ->
             {Slice(BindApp, 0), Slice(RenderBegin, 2 * NsPerMs),
              Slice(RenderBegin, 5 * NsPerMs), Slice(PageLoad, 5 * NsPerMs)}
      [] OTHER ->
             {Slice(BindApp, 0), Slice(RenderBegin, 2 * NsPerMs),
              Slice(PageLoad, 5 * NsPerMs)}
TraceOk(path) == path # Run2Iter7

\* ------------------------------------------------ values, JSON and tables

\* Python values, by their type.
PyStr(x) == [str |-> x]
PyInt(n) == [int |-> n]
PyFloat(q) == [float |-> q]
PyDict(pairs) == [dict |-> pairs]
IsDict(v) == "dict" \in DOMAIN v

\* The fields of the TraceMetrics dataclass, in order.
Fields == <<"trace_file", "iteration", "startup_latency_ms",
            "render_latency_ms", "batch", "run_arn">>

\* asdict(result)
asdict(m) == PyDict([i \in 1..Len(Fields) |-> <<Fields[i], m[Fields[i]]>>])

\* json.dump, with the bug of an encoder that writes a float as an integer
\* literal.
JsonEncodeFloatAsInt(v) ==
    IF "str" \in DOMAIN v THEN [string |-> v.str]
    ELSE IF "int" \in DOMAIN v THEN [literal |-> v.int, point |-> FALSE]
    ELSE [literal |-> v.float, point |-> FALSE]

\* The JSON text json.dump writes for a value: a string, a number literal
\* with or without a decimal point, or an object of members.
JsonEncode(v) ==
    IF "str" \in DOMAIN v THEN [string |-> v.str]
    ELSE IF "int" \in DOMAIN v THEN [literal |-> v.int, point |-> FALSE]
    ELSE [literal |-> v.float, point |-> TRUE]

JsonEncodeObject(d) ==
    [members |-> [i \in 1..Len(d.dict) |->
                      <<d.dict[i][1], JsonEncode(d.dict[i][2])>>]]

\* json.dump(metrics_list, f): the items of the array, in order.
JsonDump(list) == [i \in 1..Len(list) |-> JsonEncodeObject(list[i])]

\* The value json.load reads for a JSON text.
JsonDecode(j) ==
    IF "string" \in DOMAIN j THEN PyStr(j.string)
    ELSE IF "members" \in DOMAIN j
    THEN PyDict([i \in 1..Len(j.members) |->
                     <<j.members[i][1],
                       IF "string" \in DOMAIN j.members[i][2]
                       THEN PyStr(j.members[i][2].string)
                       ELSE IF j.members[i][2].point
                            THEN PyFloat(j.members[i][2].literal)
                            ELSE PyInt(j.members[i][2].literal)>>])
    ELSE IF j.point THEN PyFloat(j.literal) ELSE PyInt(j.literal)

\* A file .metrics_cache.json: the items of its JSON array, whether the array
\* was closed, and whether the file can be opened for reading.
CacheFile(items, closed, readable) ==
    [items |-> items, closed |-> closed, readable |-> readable]

\* open(cache_file, 'r') and json.load(f) succeed.
Loadable(file) == file.readable /\ file.closed
JsonLoad(file) == [i \in 1..Len(file.items) |-> JsonDecode(file.items[i])]

\* pd.DataFrame(data) for a list: the column labels and the rows.  A list of
\* dicts gives one column per key, a list of scalars the single column 0.
DataFrame(data) ==
    IF data = <<>> THEN [columns |-> <<>>, rows |-> <<>>]
    ELSE IF IsDict(data[1])
    THEN [columns |-> [j \in 1..Len(data[1].dict) |-> PyStr(data[1].dict[j][1])],
          rows |-> [i \in 1..Len(data) |->
                        [j \in 1..Len(data[i].dict) |-> data[i].dict[j][2]]]]
    ELSE [columns |-> <<PyInt(0)>>,
          rows |-> [i \in 1..Len(data) |-> <<data[i]>>]]

\* --------------------------------------------------- per-file extraction

Task(trace, batch_id, name) == <<trace, batch_id, name>>

\* process_single_trace(args): <<the TraceMetrics>>, or None.
process_single_trace(args) ==
    LET trace_path == args[1]
        iter_match == IterMatch(Last(trace_path))
        result == extract_startup_metrics_from_trace(TraceOf(trace_path),
                                                     TraceOk(trace_path))
    IN  IF iter_match = {} THEN None
        ELSE IF result = None THEN None
        ELSE <<[trace_file |-> PyStr(base_path \o trace_path),
                iteration |-> PyInt(Value(iter_match)),
                startup_latency_ms |-> PyFloat(result[1]),
                render_latency_ms |-> PyFloat(result[2]),
                batch |-> PyInt(args[2]),
                run_arn |-> PyStr(args[3])]>>

\* ------------------------------------- load_traces_with_batches_parallel

\* The sub-folders of base_path whose name starts with 'arn', sorted; the
\* directory itself (the empty path below it) when there is none.
RunFolders ==
    LET dirs == {f[1] : f \in {g \in trace_files : Len(g) > 1}}
        arn == SelectSeq(SortedFolders, LAMBDA d : d \in dirs /\ StartsWithArn(d))
    IN  IF arn = <<>> THEN <<<<>>>> ELSE [i \in 1..Len(arn) |-> <<arn[i]>>]

FolderName(run_folder) ==
    IF run_folder = <<>> THEN Last(base_path) ELSE Last(run_folder)

\* sorted(t for t in run_folder.rglob('*.perfetto-trace')
\*        if not any(part.startswith('.') for part in t.parts))
TracesIn(run_folder) ==
    SelectSeq(SortedPaths, LAMBDA t :
        /\ t \in trace_files
        /\ IsPrefix(run_folder, t)
        /\ Len(t) > Len(run_folder)
        /\ IsTraceName(Last(t))
        /\ LET parts == base_path \o t
           IN  ~\E i \in 1..Len(parts) : StartsWithDot(parts[i]))

\* trace_tasks: for each run folder, with its index as batch_id, its traces.
CollectTasks ==
    LET folders == RunFolders
    IN  Concat([b \in 1..Len(folders) |->
                   LET traces == TracesIn(folders[b])
                   IN  [i \in 1..Len(traces) |->
                           Task(traces[i], b - 1, FolderName(folders[b]))]])

CacheExists == cache_file # None

\* The call is not between its submission of the tasks and its return.
NotLoading == apc # "collect"

\* if use_cache and cache_file.exists(), and the try block reaches its return.
UseSnapshot(uc) == uc /\ CacheExists /\ Loadable(cache_file[1])

\* The call up to the submission of its tasks: the cache lookup, the
\* discovery of the trace files, and executor.submit for each task.
LoadTraces(uc) ==
    /\ NotLoading
    /\ use_cache' = uc
    /\ prev' = IF apc = "returned"
               THEN <<[use_cache |-> use_cache, df |-> df[1],
                       snapshot |-> cache_file]>>
               ELSE None
    /\ cleared' = None
    /\ metrics_list' = <<>>
    /\ failed_count' = 0
    /\ IF UseSnapshot(uc)
       THEN /\ df' = <<DataFrame(JsonLoad(cache_file[1]))>>
            /\ apc' = "returned"
            /\ trace_tasks' = <<>>
            /\ futures' = {}
       ELSE /\ trace_tasks' = CollectTasks
            /\ df' = None
            /\ IF CollectTasks = <<>>
               THEN apc' = "raised" /\ futures' = {}
               ELSE apc' = "collect" /\ futures' = Range(CollectTasks)
    /\ UNCHANGED <<trace_files, cache_file, extractVars, dirVars, requestVars>>

\* One turn of the as_completed loop, with the bug of a loop that gives up
\* the tasks still pending when one of them raises.
CollectResultAborting ==
    /\ apc = "collect"
    /\ \E task \in futures, raises \in BOOLEAN :
          LET result == process_single_trace(task)
          IN  /\ futures' = IF raises THEN {} ELSE futures \ {task}
              /\ IF ~raises /\ result # None
                 THEN /\ metrics_list' = Append(metrics_list, asdict(result[1]))
                      /\ UNCHANGED failed_count
                 ELSE /\ failed_count' = failed_count + 1
                      /\ UNCHANGED metrics_list
    /\ UNCHANGED <<trace_files, cache_file, apc, use_cache, trace_tasks, df,
                   prev, cleared, extractVars, dirVars, requestVars>>

\* One turn of the as_completed loop: some submitted task completes, its
\* result is a record, None, or an exception raised by future.result().
CollectResult ==
    /\ apc = "collect"
    /\ \E task \in futures, raises \in BOOLEAN :
          LET result == process_single_trace(task)
          IN  /\ futures' = futures \ {task}
              /\ IF ~raises /\ result # None
                 THEN /\ metrics_list' = Append(metrics_list, asdict(result[1]))
                      /\ UNCHANGED failed_count
                 ELSE /\ failed_count' = failed_count + 1
                      /\ UNCHANGED metrics_list
    /\ UNCHANGED <<trace_files, cache_file, apc, use_cache, trace_tasks, df,
                   prev, cleared, extractVars, dirVars, requestVars>>

\* What open(cache_file, 'w') and json.dump leave on disk: the whole array,
\* the file as it was when open raises, or the array cut short when json.dump
\* raises after the file was truncated.
WriteOutcomes(list) ==
    LET readable == IF CacheExists THEN cache_file[1].readable ELSE TRUE
    IN  {<<CacheFile(JsonDump(list), TRUE, readable)>>, cache_file}
        \cup {<<CacheFile(SubSeq(JsonDump(list), 1, k), FALSE, readable)>> :
                  k \in 0..(Len(list) - 1)}

\* The cache write, with the bug of a write the caller's opt-out does not
\* stop.
WritesSnapshotAlways(uc) == TRUE

\* if use_cache: (line 222)
WritesSnapshot(uc) == uc

\* The check for an empty result, with the bug of a check that rejects the
\* whole directory as soon as one task failed.
NoValidDataOnAnyFailure(list, failed) == list = <<>> \/ failed > 0

\* if not metrics_list: raise ValueError (line 205)
NoValidData(list, failed) == list = <<>>

\* After the executor block: the check for an empty result, the DataFrame,
\* the cache write and the return.
FinishLoad ==
    /\ apc = "collect"
    /\ futures = {}
    /\ IF NoValidData(metrics_list, failed_count)
       THEN /\ apc' = "raised"
            /\ UNCHANGED <<df, cache_file>>
       ELSE /\ apc' = "returned"
            /\ df' = <<DataFrame(metrics_list)>>
            /\ IF WritesSnapshot(use_cache)
               THEN cache_file' \in WriteOutcomes(metrics_list)
               ELSE UNCHANGED cache_file
    /\ UNCHANGED <<trace_files, use_cache, trace_tasks, futures, metrics_list,
                   failed_count, prev, cleared, extractVars, dirVars, requestVars>>

\* clear_cache(directory), with the bug of a function that reports a removal
\* whether or not a snapshot existed.
ClearCacheAlwaysTrue ==
    /\ NotLoading
    /\ apc' = "cleared"
    /\ cache_file' = None
    /\ cleared' = <<TRUE>>
    /\ UNCHANGED <<trace_files, use_cache, trace_tasks, futures, metrics_list,
                   failed_count, df, prev, extractVars, dirVars, requestVars>>

\* clear_cache(directory)
ClearCache ==
    /\ NotLoading
    /\ apc' = "cleared"
    /\ cache_file' = None
    /\ cleared' = <<CacheExists>>
    /\ UNCHANGED <<trace_files, use_cache, trace_tasks, futures, metrics_list,
                   failed_count, df, prev, extractVars, dirVars, requestVars>>

\* The trace files of two downloaded runs.
CachedRuns == {Run1Iter1, Run1Iter2, Run2Iter5, Run2Iter7, Run2Startup}

\* The trace files that come and go between two calls.
LaterFiles == {Run2Iter5}

\* A trace file appears beneath base_path (a monitored request downloads into
\* the directory) or is removed from it, between two calls.
ChangeTraceFiles ==
    /\ NotLoading
    /\ \E f \in LaterFiles :
          trace_files' = IF f \in trace_files THEN trace_files \ {f}
                         ELSE trace_files \cup {f}
    /\ apc' = "idle"
    /\ cleared' = None
    /\ UNCHANGED <<cache_file, use_cache, trace_tasks, futures, metrics_list,
                   failed_count, df, prev, extractVars, dirVars, requestVars>>

\* The snapshots a call may find that no call of this program wrote: a file
\* of length zero, a file that cannot be opened, and the JSON array [1].
ForeignSnapshots ==
    {<<CacheFile(<<>>, FALSE, TRUE)>>,
     <<CacheFile(<<>>, TRUE, FALSE)>>,
     <<CacheFile(<<[literal |-> 1, point |-> FALSE]>>, TRUE, TRUE)>>}

InitCache ==
    /\ NoRequest
    /\ NoExtraction
    /\ base_path = BaseParts
    /\ output_dir = {}
    /\ trace_files \in SUBSET CachedRuns
    /\ cache_file \in {None} \cup ForeignSnapshots
    /\ apc = "idle"
    /\ use_cache = TRUE
    /\ trace_tasks = <<>>
    /\ futures = {}
    /\ metrics_list = <<>>
    /\ failed_count = 0
    /\ df = None
    /\ prev = None
    /\ cleared = None

NextCache ==
    \/ \E uc \in BOOLEAN : LoadTraces(uc)
    \/ CollectResult
    \/ FinishLoad
    \/ ClearCache
    \/ ChangeTraceFiles

SpecCache == InitCache /\ [][NextCache]_vars

\* ----------------------------------------- the discovery of the trace files

\* The directories the loader is given: the default, and one reached through
\* the parent of the working directory ('../traces').
BasePaths == {BaseParts, <<"..", "traces">>}

\* A directory of any shape is loaded once, with no snapshot in it.
InitDiscover ==
    /\ NoRequest
    /\ NoExtraction
    /\ base_path \in BasePaths
    /\ output_dir = {}
    /\ trace_files \in SUBSET Range(SortedPaths)
    /\ cache_file = None
    /\ apc = "idle"
    /\ use_cache = TRUE
    /\ trace_tasks = <<>>
    /\ futures = {}
    /\ metrics_list = <<>>
    /\ failed_count = 0
    /\ df = None
    /\ prev = None
    /\ cleared = None

NextDiscover == \E uc \in BOOLEAN : LoadTraces(uc)

SpecDiscover == InitDiscover /\ [][NextDiscover]_vars

\* --------------------------------------------------- the output directory

\* Two devices of a run each recorded a trace named iter1.
SameNameTwice == Served(TRUE, <<Job(<<Art(<<"iter1">>, FALSE)>>, <<>>),
                                Job(<<Art(<<"iter1">>, FALSE)>>, <<>>)>>)

DownloadPlans == ArtifactPlans \cup {SameNameTwice}

\* The runs whose artifacts are downloaded.
DownloadedRuns == {RunArn(b, k) : b \in 0..1, k \in 1..2}

\* A file of output_dir: its path, and the trace entry whose bytes it holds.
File(path, entry) == <<path, entry>>

\* The k-th trace entry that the download of arn extracts.
Entry(arn, k) == <<arn, k>>

\* with open(output_file, 'wb') as f: f.write(...)
WriteFile(disk, path, entry) ==
    {f \in disk : f[1] # path} \cup {File(path, entry)}

\* The names of the entries a download extracts and writes, in order, those
\* written before an error of the suites/tests block included.
WrittenNames(served) ==
    IF ~served.list_jobs_ok THEN <<>> ELSE ForJobs(served.jobs, <<>>).files

\* The directory after the writes of a download from its k-th entry on.
RECURSIVE WriteAll(_, _, _, _)
WriteAll(disk, arn, names, k) ==
    IF k > Len(names) THEN disk
    ELSE WriteAll(WriteFile(disk, OutputFile(arn, names[k]), Entry(arn, k)),
                  arn, names, k + 1)

\* The files of a run's folder.
RunFolder(disk, arn) == {f \in disk : f[1][1] = arn}

\* download_artifacts(run_arn, output_dir) with the directory it writes to.
\* Both exits remove the run's folder only when it is empty, and no file.
DownloadArtifacts ==
    /\ pc = "idle"
    /\ \E arn \in DownloadedRuns, served \in DownloadPlans :
          /\ RunFolder(output_dir, arn) = {}
          /\ run_arn' = arn
          /\ artifacts' = served
          /\ downloaded' = download_artifacts(arn, served)
          /\ output_dir' = WriteAll(output_dir, arn, WrittenNames(served), 1)
    /\ UNCHANGED <<planVars, pc, batches, uploadVars, initial_run_arns, runs,
                   keys, all_traces, ret, lastCall, got, nScheduled,
                   extractVars, cacheVars, base_path>>

InitDownload == NoRequest /\ NoExtraction /\ NoLoad

NextDownload == DownloadArtifacts

SpecDownload == InitDownload /\ [][NextDownload]_vars

\* The monitored requests: one batch, and two batches of which the second is
\* a remainder.
RequestIterations == {1, CfgBatchSize + 1}

Init ==
    /\ pc = "plan"
    /\ NoExtraction
    /\ NoLoad
    /\ flow \in Flows
    /\ num_iterations \in RequestIterations
    /\ batch_size = CfgBatchSize
    /\ max_retries \in 0..MaxRetriesCfg
    /\ Blank

Next ==
    \/ CalculateBatches
    \/ UploadAppApk
    \/ UploadTestApk
    \/ UploadTestSpec
    \/ ScheduleBatch
    \/ PipelineUploadTestSpec
    \/ PipelineScheduleBatch
    \/ StartMonitor
    \/ CheckAllCompleted
    \/ SkipCompleted
    \/ GetRun
    \/ Download
    \/ Evaluate
    \/ ScheduleRetry
    \/ EndCycle
    \/ Sleep
    \/ KeyboardInterrupt
    \/ AfterMonitor

Spec == Init /\ [][Next]_vars

\* The monitor under the scheduling the code relies on: the process keeps
\* running, and every run of the remote service is eventually reported with a
\* terminal status by a status query that succeeds.
GetRunTerminal == GetRun /\ pc' = "download"

FairSpec == Spec /\ WF_vars(Next) /\ SF_vars(GetRunTerminal)

\* ------------------------------------------------------------------ claims

\* The batch of index b (0-based) has a registry entry that is completed.
Succeeded(b) == \E i \in 1..Len(runs) : runs[i].batch_idx = b /\ runs[i].completed

\* The traces of the returned or collected list that lie in arn's run folder.
TracesOf(traces, arn) == SelectSeq(traces, LAMBDA t : t[1] = arn)

\* C1: for positive T and B the planned batch list has ceil(T/B) entries, each
\* between 1 and B, summing to T, and all but possibly the last equal to B; so
\* T <= B gives the single batch [T].
C1_BatchPlan ==
    pc = "upload_app" =>
        LET n == Len(batches)
            T == num_iterations
            B == batch_size
        IN /\ n * B >= T
           /\ (n - 1) * B < T
           /\ \A i \in 1..n : batches[i] \in 1..B
           /\ SumSeq(batches) = T
           /\ \A i \in 1..(n - 1) : batches[i] = B
           /\ (T <= B => batches = <<T>>)

C1_Witness ==
    /\ pc = "upload_app"
    /\ Len(batches) = 3
    /\ batches[3] < batch_size

\* C2: a batch whose runs all end with zero traces is scheduled max_retries + 1
\* times in all: never more, and the monitor gives the batch up only on the
\* run of attempt max_retries + 1, the last of them.
C2_RetryBound ==
    /\ \A b \in 1..num_batches : nScheduled[b] <= max_retries + 1
    /\ pc = "ret_abandoned" =>
        LET info == Lookup(runs, run_arn) IN
        /\ nScheduled[info.batch_idx + 1] = max_retries + 1
        /\ info.attempt = max_retries + 1
        /\ run_arn = RunArn(info.batch_idx, max_retries + 1)

C2_Witness ==
    /\ pc = "ret_abandoned"
    /\ max_retries = 3
    /\ nScheduled[Lookup(runs, run_arn).batch_idx + 1] = 4

\* C3: the monitor returns success only when every batch has a completed
\* entry, and an entry is completed only if its run was seen with a terminal
\* status and its download gave at least one trace.
C3_SuccessMeansAllSucceeded ==
    /\ (ret # None /\ ret[1]) => pc \in {"ret_success", "done"}
    /\ pc = "ret_success" => \A b \in 0..(num_batches - 1) : Succeeded(b)
    /\ \A i \in 1..Len(runs) :
        runs[i].completed =>
            /\ runs[i].last_status \in TerminalStatuses
            /\ TracesOf(all_traces, runs[i].arn) # <<>>
            /\ \E k \in 1..Len(got) : TracesOf(got[k], runs[i].arn) # <<>>

C3_Witness ==
    /\ pc = "ret_success"
    /\ Len(runs) = 2
    /\ \E i \in 1..Len(runs) : runs[i].attempt > 1

\* The ends the premise of C4 excludes: an operator interrupt, a batch out of
\* budget, a failed call, a session that cannot be created.
Excluded == {"ret_interrupt", "ret_abandoned", "ret_sched_failed", "raised",
             "exit", "return_none", "return_info"}

\* C4: when every batch gets a run with traces within its budget and nobody
\* interrupts, the monitor eventually returns success, and the list it returns
\* is the concatenation of the non-empty download results, each once.
C4_Convergence ==
    /\ <>(pc \in {"ret_success"} \cup Excluded)
    /\ [](pc = "ret_success" => /\ ret = <<TRUE, Concat(got)>>
                                /\ Len(got) = num_batches)

C4_Witness ==
    /\ pc = "ret_success"
    /\ Len(got) = 2
    /\ Len(ret[2]) = 4
    /\ \E i \in 1..Len(runs) : runs[i].attempt = 3

\* C5: a run of attempt max_retries + 1 seen terminal with zero traces ends the
\* request in that step: failure is returned with every trace collected so
\* far, no call is made in the step or after it, and the runs left in the
\* cycle are not visited.
C5_AbandonAtOnce ==
    /\ [][(pc' = "ret_abandoned" /\ pc # "ret_abandoned") =>
            /\ pc = "evaluate"
            /\ downloaded = <<>>
            /\ Lookup(runs, run_arn).attempt > max_retries
            /\ ret' = <<FALSE, Concat(got)>>
            /\ UNCHANGED <<lastCall, nScheduled, runs, keys, all_traces>>]_vars
    /\ [][pc = "ret_abandoned" =>
            /\ pc' \in {"ret_abandoned", "exit"}
            /\ UNCHANGED <<lastCall, nScheduled, ret>>]_vars

C5_Witness ==
    /\ pc = "ret_abandoned"
    /\ ret[2] # <<>>
    /\ keys # <<>>

\* C6: a retry schedules one new run with the batch's own test spec and run
\* name and the request's app, test package and device pool; the new entry has
\* the batch's index and attempt + 1, the old handle leaves the registry, and
\* no status query or download is made for an old handle.
C6_Retry ==
    /\ [][(pc = "retry" /\ pc' = "poll") =>
            LET old == Lookup(runs, run_arn)
                b == old.batch_idx
            IN /\ lastCall'.op = "schedule_run"
               /\ lastCall'.args = <<AppArn, TestPackageArn, DevicePoolArn,
                                     TestSpecArn(b + 1), RunName(b + 1)>>
               /\ nScheduled' = [nScheduled EXCEPT ![b + 1] = @ + 1]
               /\ ~HasKey(runs', run_arn)
               /\ HasKey(runs', lastCall'.arn)
               /\ Lookup(runs', lastCall'.arn) =
                    RunInfo(lastCall'.arn, b, old.attempt + 1)
               /\ Len(runs') = Len(runs)]_vars
    /\ [](lastCall.op \in {"get_run", "download"} =>
            lastCall.arn = RunArn(lastCall.arn[2], nScheduled[lastCall.arn[2] + 1]))

C6_Witness ==
    /\ pc = "poll"
    /\ lastCall.op = "schedule_run"
    /\ Len(runs) = 2
    /\ runs[2].batch_idx = 0
    /\ runs[2].attempt = 2

\* C7: an operator interrupt returns the traces collected so far with an
\* outcome that differs from the one of an abandoned request.
C7_InterruptIsNotFailure ==
    pc = "ret_interrupt" =>
        /\ ret[2] = all_traces
        /\ ret[1] # AbandonReturn[1]

\* C8 as stated: the interrupt is taken at the top of a poll cycle, after the
\* cycle in progress has handled its runs.
C8_ObservedAtTopOfCycle ==
    [][(pc' = "ret_interrupt" /\ pc # "ret_interrupt") => pc = "top"]_vars

\* The calls the request makes to the remote service.
RemoteOps == {"none", "create_upload", "schedule_run", "get_run", "download"}

\* C8, amended: the interrupt is taken where it is raised, anywhere in the
\* loop, without a call in that step; after it no status query, download or
\* schedule call is made, and no stop or cancel call is ever made.
C8_ObservedWhereRaised ==
    /\ [][(pc' = "ret_interrupt" /\ pc # "ret_interrupt") =>
            /\ pc \in InLoop
            /\ UNCHANGED <<lastCall, nScheduled, runs, keys, all_traces>>]_vars
    /\ [][pc = "ret_interrupt" =>
            /\ pc' \in {"ret_interrupt", "exit"}
            /\ UNCHANGED <<lastCall, nScheduled>>]_vars
    /\ [](lastCall.op \in RemoteOps)

C8_Witness ==
    /\ pc = "ret_interrupt"
    /\ keys # <<>>
    /\ lastCall.op = "get_run"

\* C9: a failed upload or schedule call is the request's last call: the
\* request is aborted without monitoring, or, for a retry, the monitor returns
\* failure at once; batches scheduled before stay scheduled.
C9_FailedCallIsFatal ==
    (lastCall.op \in {"create_upload", "schedule_run"} /\ lastCall.arn = None) =>
        \/ /\ pc \in {"exit", "return_none"}
           /\ runs = <<>>
           /\ ret = None
           /\ \A b \in 1..num_batches :
                nScheduled[b] = IF b <= Len(initial_run_arns) THEN 1 ELSE 0
        \/ /\ pc \in {"ret_sched_failed", "exit"}
           /\ ret = <<FALSE, all_traces>>

C9_Witness ==
    /\ pc = "exit"
    /\ lastCall.op = "schedule_run"
    /\ lastCall.arn = None
    /\ Len(initial_run_arns) = 1
    /\ ret = None

\* Every trace entry extracted from what the service served, whether or not
\* another artifact failed.
RECURSIVE Extracted(_)
Extracted(jobs) ==
    IF jobs = <<>> THEN {}
    ELSE LET j == Head(jobs) IN
         UNION {Range(j.job_artifacts[i].names) : i \in 1..Len(j.job_artifacts)}
         \cup UNION {Range(j.test_artifacts[i].names) : i \in 1..Len(j.test_artifacts)}
         \cup Extracted(Tail(jobs))

Failed(jobs) ==
    \E n \in 1..Len(jobs) :
        \/ \E i \in 1..Len(jobs[n].job_artifacts) : jobs[n].job_artifacts[i].error
        \/ \E i \in 1..Len(jobs[n].test_artifacts) : jobs[n].test_artifacts[i].error

\* C10: an error on one artifact of a terminal run skips that artifact only:
\* the traces extracted from the run's other artifacts are returned, and the
\* error does not make the monitor give the request up.
C10_ArtifactErrorIsLocal ==
    /\ (pc = "evaluate" /\ artifacts.list_jobs_ok) =>
            \A name \in Extracted(artifacts.jobs) :
                \E i \in 1..Len(downloaded) : downloaded[i] = OutputFile(run_arn, name)
    /\ pc = "ret_abandoned" => ~Failed(artifacts.jobs)

\* ----------------------------------------------- claims: metric extraction

\* The earliest timestamp of the slices named n in the trace.
FirstOccurrence(n) ==
    CHOOSE t \in {r.ts : r \in {q \in slices : q.name = n}} :
        \A q \in slices : q.name = n => t <= q.ts

Present(n) == \E r \in slices : r.name = n

\* C11: a metrics record is produced for a trace only if the three markers are
\* present and their first occurrences are increasing with bindApplication
\* first, so that no record has a startup or render latency that is zero or
\* negative; a trace that misses a marker yields no record.
C11_RecordOnlyIfIncreasing ==
    epc = "returned" =>
        /\ extracted # None =>
              /\ \A n \in MarkerNames : Present(n)
              /\ FirstOccurrence(BindApp) < FirstOccurrence(RenderBegin)
              /\ FirstOccurrence(RenderBegin) < FirstOccurrence(PageLoad)
              /\ extracted[1][1] > 0
              /\ extracted[2][1] > 0
        /\ (\E n \in MarkerNames : ~Present(n)) => extracted = None

\* C20: for a trace that holds the three markers, the startup latency is the
\* first page load timestamp minus the first bindApplication timestamp, and
\* the render latency the first render timestamp minus the first
\* bindApplication timestamp, both divided by 10^6, whatever later
\* occurrences the trace holds; bind = 0, render = 2,000,000 and page load =
\* 5,000,000 give 5.0 and 2.0.
C20_LatenciesOfFirstOccurrences ==
    (epc = "returned" /\ tp_ok /\ \A n \in MarkerNames : Present(n)) =>
        /\ extracted # None
        /\ extracted[1][2] = 1000000
        /\ extracted[2][2] = 1000000
        /\ extracted[1][1] = FirstOccurrence(PageLoad) - FirstOccurrence(BindApp)
        /\ extracted[2][1] = FirstOccurrence(RenderBegin) - FirstOccurrence(BindApp)
        /\ ( /\ FirstOccurrence(BindApp) = 0
             /\ FirstOccurrence(RenderBegin) = 2000000
             /\ FirstOccurrence(PageLoad) = 5000000 )
           => /\ extracted[1][1] = 5 * extracted[1][2]
              /\ extracted[2][1] = 2 * extracted[2][2]

\* The example trace with a later occurrence of each of two markers.
C20_Witness ==
    /\ epc = "returned"
    /\ tp_ok
    /\ slices = {Slice(BindApp, 0), Slice(RenderBegin, 2000000),
                 Slice(PageLoad, 5000000), Slice(BindApp, 2000000),
                 Slice(RenderBegin, 5000000)}
    /\ extracted = <<<<5000000, 1000000>>, <<2000000, 1000000>>>>

\* ------------------------------------------------- claims: metrics cache

\* The step is a call of load_traces_with_batches_parallel up to its return,
\* its raise or the submission of its tasks.
IsLoadStep == apc # "collect" /\ apc' \in {"returned", "raised", "collect"}
\* The step is the end of a call that ran the extraction.
IsFinishStep == apc = "collect" /\ apc' \in {"returned", "raised"}

\* The snapshot holds the whole of the call's record list.
Persisted(file, list) ==
    /\ file # None
    /\ file[1].closed
    /\ file[1].items = JsonDump(list)

\* The JSON item is the object of one record.
IsRecordObject(item) ==
    /\ "members" \in DOMAIN item
    /\ [i \in 1..Len(item.members) |-> item.members[i][1]] = Fields

\* The snapshot cannot be read, or is not an array of record objects.
Corrupt(file) ==
    /\ file # None
    /\ \/ ~file[1].readable
       \/ ~file[1].closed
       \/ \E i \in 1..Len(file[1].items) : ~IsRecordObject(file[1].items[i])

C13_ExtractionPersists ==
    (apc = "returned" /\ trace_tasks # <<>>) =>
        \/ Persisted(cache_file, metrics_list)
        \/ cache_file = None
        \/ ~Loadable(cache_file[1])

\* C14: with use_cache = True and a snapshot that is unreadable or malformed
\* the call behaves as on a cold cache: it runs the full extraction, returns
\* that result and never data of the corrupt snapshot, and overwrites the
\* snapshot with the result (a write that failed aside).
C14_CorruptSnapshotIsCold ==
    [][ /\ (IsLoadStep /\ use_cache' /\ Corrupt(cache_file)) =>
              /\ apc' # "returned"
              /\ trace_tasks' = CollectTasks
        /\ (IsFinishStep /\ apc' = "returned" /\ use_cache /\ Corrupt(cache_file)) =>
              /\ df' = <<DataFrame(metrics_list)>>
              /\ \/ Persisted(cache_file', metrics_list)
                 \/ cache_file' = None
                 \/ ~Loadable(cache_file'[1]) ]_vars

\* C15: the snapshot changes only to absent or to the complete record list of
\* one successful extraction, after all its tasks completed; a write that
\* fails leaves no partial snapshot.
C15_SnapshotAllOrNothing ==
    [][ cache_file' # cache_file =>
            \/ cache_file' = None
            \/ /\ futures = {}
               /\ metrics_list # <<>>
               /\ Persisted(cache_file', metrics_list) ]_vars

\* C16: whenever a readable snapshot exists and the caller opts in, the call
\* returns the snapshot's records as they are and runs no extraction,
\* whatever trace files the directory holds; a readable snapshot is changed
\* by clear_cache only.
C16_SnapshotReturnedVerbatim ==
    [][ /\ (IsLoadStep /\ use_cache' /\ cache_file # None /\ Loadable(cache_file[1])) =>
              /\ apc' = "returned"
              /\ df' = <<DataFrame(JsonLoad(cache_file[1]))>>
              /\ Len(df'[1].rows) = Len(cache_file[1].items)
              /\ trace_tasks' = <<>>
              /\ futures' = {}
        /\ (cache_file # None /\ Loadable(cache_file[1]) /\ cache_file' # cache_file) =>
              /\ apc' = "cleared"
              /\ cache_file' = None ]_vars

\* The snapshot of one record is returned although the directory holds two
\* traces that yield a record.
C16_Witness ==
    /\ apc = "returned" /\ use_cache /\ trace_tasks = <<>>
    /\ {Run1Iter1, Run2Iter5} \subseteq trace_files
    /\ cache_file # None
    /\ Len(cache_file[1].items) = 1
    /\ IsRecordObject(cache_file[1].items[1])
    /\ df[1].rows = <<<<PyStr(BaseParts \o Run1Iter1), PyInt(1),
                        PyFloat(<<5 * NsPerMs, NsPerMs>>),
                        PyFloat(<<2 * NsPerMs, NsPerMs>>),
                        PyInt(0), PyStr("arn_run1")>>>>

\* C17: clear_cache removes the snapshot whatever it holds and returns True
\* iff one existed; afterwards there is no snapshot, the next cache-enabled
\* call runs the full extraction, and a second clear_cache changes nothing
\* and returns False.
C17_ClearCache ==
    [][ /\ apc' = "cleared" =>
              /\ cache_file' = None
              /\ cleared' = <<cache_file # None>>
        /\ (apc = "cleared" /\ apc' = "cleared") =>
              /\ cleared' = <<FALSE>>
              /\ cache_file' = cache_file
        /\ (apc = "cleared" /\ IsLoadStep /\ use_cache') =>
              /\ apc' # "returned"
              /\ trace_tasks' = CollectTasks ]_vars

\* A snapshot written by a call was cleared.
C17_Witness ==
    /\ apc = "cleared"
    /\ cleared = <<TRUE>>
    /\ cache_file = None
    /\ df # None
    /\ trace_tasks # <<>>

\* The trace file yields a record: its name holds an iteration number, it can
\* be queried and it holds the three markers.
YieldsRecord(path) ==
    /\ IterMatch(Last(path)) # {}
    /\ TraceOk(path)
    /\ \A n \in MarkerNames : \E r \in TraceOf(path) : r.name = n

\* The files behind the rows of a returned table.
FilesOf(table) ==
    {SubSeq(table.rows[i][1].str, Len(BaseParts) + 1, Len(table.rows[i][1].str)) :
         i \in 1..Len(table.rows)}

\* C18: whatever tasks fail, the call returns normally with the records of
\* the other tasks and never raises to its caller.
C18_NeverRaises ==
    [][ IsFinishStep =>
            /\ apc' = "returned"
            /\ Len(df'[1].rows) = Len(trace_tasks) - failed_count ]_vars

\* C18 as amended: whatever tasks fail, as long as one task yields a record
\* the call returns normally with the records of the tasks that did not
\* fail; when every task fails it raises ValueError.
C18_RaisesOnlyWhenAllFail ==
    [][ IsFinishStep =>
            /\ apc' = "raised" <=> failed_count = Len(trace_tasks)
            /\ apc' = "returned" =>
                  /\ Len(df'[1].rows) = Len(trace_tasks) - failed_count
                  /\ Cardinality(FilesOf(df'[1])) = Len(df'[1].rows)
                  /\ \A f \in FilesOf(df'[1]) :
                         YieldsRecord(f) /\ \E i \in 1..Len(trace_tasks) :
                                               trace_tasks[i][1] = f ]_vars

\* Four tasks, three of them failed, one record returned.
C18_Witness ==
    /\ apc = "returned"
    /\ Len(trace_tasks) = 4
    /\ failed_count = 3
    /\ Len(df[1].rows) = 1

\* C19: a failing task does not abort the others: every dispatched task
\* completes and adds either one record or one to the failure count, a file
\* with a malformed name or a missing marker adds no record, and when the
\* collection ends the records and the failures add up to the dispatched
\* files.
C19_OneOutcomePerTask ==
    /\ apc = "collect" =>
          /\ Len(metrics_list) + failed_count + Cardinality(futures)
                 = Len(trace_tasks)
          /\ Cardinality(Range(trace_tasks)) = Len(trace_tasks)
    /\ (apc \in {"returned", "raised"} /\ trace_tasks # <<>>) =>
          /\ futures = {}
          /\ Len(metrics_list) + failed_count = Len(trace_tasks)
    /\ \A i \in 1..Len(metrics_list) :
          /\ YieldsRecord(SubSeq(metrics_list[i].dict[1][2].str,
                                 Len(BaseParts) + 1,
                                 Len(metrics_list[i].dict[1][2].str)))
          /\ \A j \in 1..Len(metrics_list) :
                 metrics_list[i] = metrics_list[j] => i = j

\* Five tasks: three of files that yield no record, one that raised, and one
\* that completed with its record.
C19_Witness ==
    /\ apc = "returned"
    /\ Len(trace_tasks) = 5
    /\ failed_count = 4
    /\ Len(metrics_list) = 1
    /\ metrics_list[1].dict[2][2] = PyInt(5)

\* ------------------------------------------- claims: the monitor's registry

\* The monitor has built its registry and its caller has not gone on yet.
InMonitor == pc \in InLoop \cup Returned

\* The batch indexes of the request.
Batches == 0..(Len(initial_run_arns) - 1)

\* The registry entry of a batch.
EntryOf(d, b) == d[CHOOSE i \in 1..Len(d) : d[i].batch_idx = b]

\* C21: every registry entry has 1 <= attempt <= max_retries + 1; attempt
\* starts at 1 for each initial run, changes only by +1 when a retry run
\* replaces the batch's entry, and never decreases.
C21_AttemptBounds ==
    /\ [](InMonitor =>
            \A i \in 1..Len(runs) : runs[i].attempt \in 1..(max_retries + 1))
    /\ [][(pc = "monitor" /\ pc' = "top") =>
            \A i \in 1..Len(runs') : runs'[i].attempt = 1]_vars
    /\ [][(InMonitor /\ InMonitor') =>
            \A b \in Batches :
                IF pc = "retry" /\ pc' = "poll"
                   /\ b = Lookup(runs, run_arn).batch_idx
                THEN /\ EntryOf(runs', b).attempt = EntryOf(runs, b).attempt + 1
                     /\ EntryOf(runs', b).arn # EntryOf(runs, b).arn
                ELSE EntryOf(runs', b).attempt = EntryOf(runs, b).attempt]_vars

\* One batch is on its last attempt while the other is still on its first.
C21_Witness ==
    /\ pc \in InLoop
    /\ max_retries = 2
    /\ Len(runs) = 2
    /\ \E i, j \in 1..2 : runs[i].attempt = 3 /\ runs[j].attempt = 1

\* The steps C22_SucceededUntouched allows.
C22_Step ==
    pc \in InLoop =>
        \A i \in 1..Len(runs) : runs[i].completed =>
            /\ InMonitor' => \E j \in 1..Len(runs') : runs'[j] = runs[i]
            /\ TracesOf(all_traces', runs[i].arn) = TracesOf(all_traces, runs[i].arn)
            /\ lastCall' # lastCall =>
                  /\ lastCall'.arn # runs[i].arn
                  /\ lastCall'.op = "schedule_run" =>
                        Lookup(runs, run_arn).batch_idx # runs[i].batch_idx
            /\ (keys # <<>> /\ Head(keys) = runs[i].arn /\ keys' # keys) =>
                  lastCall' = lastCall

\* C22: once a batch is completed its entry, its run handle and its traces in
\* the trace list never change again: no status query, download or schedule
\* call is issued for it, whatever happens to the other batches, and
\* completed never reverts.
C22_SucceededUntouched == [][ C22_Step ]_vars

\* A batch is completed while the other batch is being retried for the third
\* time.
C22_Witness ==
    /\ pc = "retry"
    /\ Len(runs) = 2
    /\ \E i, j \in 1..2 :
          /\ runs[i].completed
          /\ TracesOf(all_traces, runs[i].arn) # <<>>
          /\ ~runs[j].completed /\ runs[j].attempt = 3

\* The steps C23_OneQueryPerActiveBatch allows.
C23_Step ==
    /\ (pc = "top" /\ pc' = "poll") =>
          keys' = [i \in 1..Len(runs) |-> runs[i].arn]
    /\ (pc' = "top" /\ pc # "top") => pc \in {"monitor", "sleep"}
    /\ (pc \in InLoop \ {"top"} /\ keys' # keys) =>
          /\ pc = "poll"
          /\ keys # <<>>
          /\ keys' = Tail(keys)
          /\ IF Lookup(runs, Head(keys)).completed
             THEN lastCall' = lastCall
             ELSE lastCall'.op = "get_run" /\ lastCall'.arn = Head(keys)
    /\ (pc \in InLoop /\ lastCall'.op = "get_run" /\ lastCall' # lastCall) =>
          /\ pc = "poll"
          /\ keys # <<>>
          /\ lastCall'.arn = Head(keys)
          /\ keys' = Tail(keys)
    /\ (pc = "poll" /\ pc' = "sleep") => keys = <<>>
    /\ pc = "sleep" => lastCall' = lastCall /\ pc' \in {"top", "ret_interrupt"}
    /\ (pc = "retry" /\ pc' = "poll") =>
          /\ keys' = keys
          /\ \A i \in 1..Len(keys') : keys'[i] # lastCall'.arn
          /\ runs'[Len(runs')].arn = lastCall'.arn
          /\ runs'[Len(runs')].status = "PENDING"

\* C23: in a polling cycle that no return cuts short, the monitor issues one
\* status query for every batch active at the start of the cycle, in registry
\* order, and none for any other run; a retry run scheduled during the cycle
\* is queried for the first time in the following cycle, after the sleep.
C23_OneQueryPerActiveBatch == [][ C23_Step ]_vars

\* The cycle ends: the first batch was queried and is running, the second was
\* retried in this cycle and its new run has not been queried.
C23_Witness ==
    /\ pc = "sleep"
    /\ Len(runs) = 2
    /\ runs[1].batch_idx = 0 /\ runs[1].status = "RUNNING"
    /\ runs[2].batch_idx = 1 /\ runs[2].attempt = 2
    /\ runs[2].status = "PENDING"
    /\ lastCall.op = "schedule_run"

\* C25: with pairwise distinct run handles the registry holds exactly one
\* entry per batch index 0..N-1: a retry replaces the batch's entry by one
\* entry of the same batch index under the new handle, no operation adds a
\* second entry for a batch or drops one, and the 'all completed' check
\* ranges over all N batches.
C25_OneEntryPerBatch ==
    InMonitor =>
        /\ Len(runs) = Len(initial_run_arns)
        /\ \A b \in Batches :
              Cardinality({i \in 1..Len(runs) : runs[i].batch_idx = b}) = 1
        /\ \A i, j \in 1..Len(runs) : runs[i].arn = runs[j].arn => i = j
        /\ pc = "ret_success" => \A b \in Batches : EntryOf(runs, b).completed

\* The first batch was retried: its entry is under a new handle behind the
\* entry of the second batch.
C25_Witness ==
    /\ pc \in InLoop
    /\ Len(initial_run_arns) = 2
    /\ Len(runs) = 2
    /\ runs[1].batch_idx = 1
    /\ runs[2].batch_idx = 0
    /\ runs[2].arn # initial_run_arns[1]

\* The steps C28_StatusErrorIsLocal allows.
C28_Step ==
    /\ (pc = "poll" /\ keys # <<>> /\ keys' # keys
        /\ lastCall'.op = "get_run" /\ lastCall'.arn = Head(keys)
        /\ lastCall'.args = <<"error">>) =>
          /\ runs' = runs
          /\ nScheduled' = nScheduled
          /\ all_traces' = all_traces
          /\ ret' = ret
          /\ pc' = "poll"
          /\ keys' = Tail(keys)
          /\ HasKey(runs', lastCall'.arn)
          /\ ~Lookup(runs', lastCall'.arn).completed
    /\ (pc = "top" /\ pc' = "poll") =>
          \A i \in 1..Len(runs) :
              ~runs[i].completed =>
                  \E k \in 1..Len(keys') : keys'[k] = runs[i].arn

\* C28: an error of the status query of a run leaves its entry unchanged,
\* consumes no retry, does not end monitoring and does not keep the remaining
\* batches of the cycle from being polled; the run is in the list of the next
\* cycle.
C28_StatusErrorIsLocal == [][ C28_Step ]_vars

\* The status query of the first batch raised; the second batch is still to
\* be polled in this cycle.
C28_Witness ==
    /\ pc = "poll"
    /\ lastCall.op = "get_run"
    /\ lastCall.args = <<"error">>
    /\ Len(runs) = 2
    /\ lastCall.arn = runs[1].arn
    /\ keys = <<runs[2].arn>>
    /\ runs[1].status = "PENDING"

\* C29: the monitor always returns a (success, traces) pair and never raises
\* to its caller, whatever fails in the remote service or its client, a
\* failure while the session or client is created included.
C29_NeverRaises ==
    /\ pc # "raised"
    /\ pc \in Returned => (Len(ret) = 2 /\ ret[1] \in BOOLEAN)

\* C24: the monitor has no polling ceiling but terminates when every run
\* eventually reports a terminal status to a status query that succeeds; at
\* most N * (max_retries + 1) runs are scheduled for N batches; and while
\* some active run is not terminal and no interrupt arrives, the monitor does
\* not return.
C24_NoReturnWhileRunning ==
    /\ (pc = "top") ~> (pc \in Returned)
    /\ [](SumSeq(nScheduled) <= Len(nScheduled) * (max_retries + 1))
    /\ [](pc \in Returned \ {"ret_interrupt"} =>
            \A i \in 1..Len(runs) :
                runs[i].completed \/ IsTerminal(runs[i].status))

\* C24 as amended: while some active run is not terminal and no interrupt
\* arrives the monitor does not return success; it returns failure only for
\* a terminal run without traces whose budget is spent or whose retry could
\* not be scheduled.
C24_TerminatesWithinBudget ==
    /\ (pc = "top") ~> (pc \in Returned)
    /\ [](SumSeq(nScheduled) <= Len(nScheduled) * (max_retries + 1))
    /\ [](pc = "ret_success" => \A i \in 1..Len(runs) : runs[i].completed)
    /\ [](pc \in {"ret_abandoned", "ret_sched_failed"} =>
            /\ IsTerminal(Lookup(runs, run_arn).status)
            /\ downloaded = <<>>
            /\ pc = "ret_abandoned" =>
                  Lookup(runs, run_arn).attempt = max_retries + 1)

\* The request is abandoned for one batch, whose budget of runs is spent,
\* while the run of the other batch is still running.
C24_Witness ==
    /\ pc = "ret_abandoned"
    /\ max_retries = 1
    /\ Len(runs) = 2
    /\ \E i \in 1..2 : runs[i].status = "RUNNING" /\ ~runs[i].completed
    /\ \E b \in 1..2 : nScheduled[b] = max_retries + 1

\* ----------------------------------------------- claims: files and folders

\* The trace files beneath base_path no segment of whose path below it starts
\* with '.'.
VisibleTraces ==
    {f \in trace_files :
        /\ IsTraceName(Last(f))
        /\ \A i \in 1..Len(f) : ~StartsWithDot(f[i])}

\* C26: on a cold path the tasks dispatched are the '*.perfetto-trace' files
\* anywhere beneath the source directory whose path below it has no segment
\* starting with '.', each exactly once, whatever the ancestors of the source
\* directory are called and whether or not 'arn*' folders lie next to loose
\* trace files.
C26_DispatchesVisibleTraces ==
    apc \in {"collect", "raised"} =>
        /\ {trace_tasks[i][1] : i \in 1..Len(trace_tasks)} = VisibleTraces
        /\ Len(trace_tasks) = Cardinality(VisibleTraces)

\* C27: a download that returns traces returns pairwise distinct paths, one
\* per entry it extracted, each file holding its entry's bytes: entries of a
\* run with the same basename do not overwrite each other, and the number of
\* returned paths is the number of trace files on disk for the run.
C27_ReturnedPathsDistinct ==
    (run_arn # None /\ downloaded # <<>>) =>
        /\ \A i, j \in 1..Len(downloaded) :
              downloaded[i] = downloaded[j] => i = j
        /\ \A i \in 1..Len(downloaded) :
              File(downloaded[i], Entry(run_arn, i)) \in output_dir
        /\ Len(downloaded) = Cardinality(RunFolder(output_dir, run_arn))

\* C30: when download_artifacts returns an empty list for a run, no trace
\* file of that run is under output_dir, so the files a call wrote are the
\* files of the list it returned.
C30_EmptyResultLeavesNoFile ==
    run_arn # None =>
        /\ downloaded = <<>> => RunFolder(output_dir, run_arn) = {}
        /\ {f[1] : f \in RunFolder(output_dir, run_arn)} = Range(downloaded)

====
